---- MODULE Spec2Model ----
(***************************************************************************)
(* Session state machine of pdf_Training.py: the Streamlit session state   *)
(* (messages, processed_docs, file_key, qa_agent, selected_model) and the  *)
(* handlers that change it: the model selectbox, handle_file_upload,       *)
(* initialize_agent / DeepSeekAPIAgent.run / process_question.             *)
(*                                                                         *)
(* Text is modelled by spans: a chunk's page_content is the span           *)
(* [start, start+len) of the text of document file_id, and a string built  *)
(* from chunks is the sequence of its pieces (spans and separators).       *)
(***************************************************************************)
EXTENDS Integers, Sequences, FiniteSets, TLC

VARIABLES messages, processed_docs, file_key, qa_agent, selected_model, pre, last

vars == <<messages, processed_docs, file_key, qa_agent, selected_model, pre, last>>

(* ---------------- bounds ---------------- *)
MaxMsgs == 3
MaxFileKey == 2

(* ---------------- program constants ---------------- *)
ChunkSize == 6000
ChunkOverlap == 600
MaxStoredChunks == 4
ContextChunks == 3
ContextChars == 2000

Min(a, b) == IF a < b THEN a ELSE b

(* ---------------- inputs ---------------- *)
NoFile == 0
FileIds == 1 .. 6
\* length of the extracted text of each sample document
DocLen(f) ==
  CASE f = 1 -> 0
    [] f = 2 -> 1500
    [] f = 3 -> 6000
    [] f = 4 -> 10900
    [] f = 5 -> 22200
    [] OTHER -> 30000

model_options == {"gemini-pro", "deepseek-r1"}
Questions == {"q1", "q2"}
AnswerTexts == {"a1"}
Sentinel == "Could not extract answer"

UploadOutcomes == {"ok", "write_fails", "load_fails", "split_fails", "unlink_fails"}

FailureKinds == {"timeout", "connection_error", "http_error", "invalid_json",
                 "not_a_dict", "no_choices", "empty_choices", "no_text", "null_text"}
BackendOutcomes ==
  {[kind |-> k, text |-> ""] : k \in FailureKinds}
    \cup {[kind |-> "text", text |-> t] : t \in AnswerTexts \cup {""}}

(* ---------------- Python values ---------------- *)
PyNone == [tag |-> "None", s |-> ""]
Str(s) == [tag |-> "str", s |-> s]
Truthy(v) == v.tag = "str" /\ v.s # ""

\* processed_docs is None, or the dict {'chunks': ..., 'file_id': ...}
NoDocs == [present |-> FALSE, chunks |-> <<>>, file_id |-> NoFile]
Docs(chunks, f) == [present |-> TRUE, chunks |-> chunks, file_id |-> f]

(* ---------------- chunker ---------------- *)
Step == ChunkSize - ChunkOverlap
NumChunks(L) == (L + Step - 1) \div Step
SplitDocuments(f) ==
  [i \in 1 .. NumChunks(DocLen(f)) |->
     [file_id |-> f, start |-> (i - 1) * Step,
      len |-> Min(ChunkSize, DocLen(f) - (i - 1) * Step)]]

(* ---------------- handle_file_upload ---------------- *)
LimitChunksShort(chunks) == SubSeq(chunks, 1, Min(MaxStoredChunks - 1, Len(chunks)))
LimitChunks(chunks) == SubSeq(chunks, 1, Min(MaxStoredChunks, Len(chunks)))

NewTranscriptKept(msgs) == msgs
NewTranscript(msgs) == <<>>

AlreadyProcessedNever(docs, f) == FALSE
AlreadyProcessed(docs, f) == docs.present /\ docs.file_id = f

Snapshot ==
  [processed_docs |-> processed_docs, messages |-> messages, file_key |-> file_key,
   qa_agent |-> qa_agent, selected_model |-> selected_model]

NoCall ==
  [called |-> FALSE, constructed |-> FALSE, backend |-> "None", context |-> <<>>,
   question |-> "", outcome |-> [kind |-> "none", text |-> ""], response |-> PyNone]

UploadInfo(f, o, ret, rep, reproc) ==
  [op |-> "upload", file |-> f, outcome |-> o, ret |-> ret, reported |-> rep,
   reprocessed |-> reproc, call |-> NoCall]

handle_file_upload(f, o) ==
  /\ pre' = Snapshot
  /\ UNCHANGED <<qa_agent, selected_model>>
  /\ IF f = NoFile
       THEN /\ o = "ok"
            /\ UNCHANGED <<messages, processed_docs, file_key>>
            /\ last' = UploadInfo(f, o, FALSE, FALSE, FALSE)
     ELSE IF AlreadyProcessed(processed_docs, f)
       THEN /\ o = "ok"
            /\ UNCHANGED <<messages, processed_docs, file_key>>
            /\ last' = UploadInfo(f, o, TRUE, FALSE, FALSE)
     ELSE IF o \in {"write_fails", "load_fails", "split_fails"}
       THEN /\ file_key < MaxFileKey
            /\ UNCHANGED <<messages, processed_docs>>
            /\ file_key' = file_key + 1
            /\ last' = UploadInfo(f, o, FALSE, TRUE, FALSE)
     ELSE IF o = "unlink_fails"
       THEN /\ file_key < MaxFileKey
            /\ processed_docs' = Docs(LimitChunks(SplitDocuments(f)), f)
            /\ messages' = NewTranscript(messages)
            /\ file_key' = file_key + 1
            /\ last' = UploadInfo(f, o, FALSE, TRUE, TRUE)
     ELSE /\ processed_docs' = Docs(LimitChunks(SplitDocuments(f)), f)
          /\ messages' = NewTranscript(messages)
          /\ UNCHANGED file_key
          /\ last' = UploadInfo(f, o, TRUE, FALSE, TRUE)

(* ---------------- model selection ---------------- *)
select_model(m) ==
  /\ pre' = Snapshot
  /\ selected_model' = m
  /\ UNCHANGED <<messages, processed_docs, file_key, qa_agent>>
  /\ last' = [op |-> "select", file |-> NoFile, outcome |-> "ok", ret |-> FALSE,
              reported |-> FALSE, reprocessed |-> FALSE, call |-> NoCall]

(* ---------------- initialize_agent ---------------- *)
InitializeAgentRebuild(agent, model, ok) == IF ok THEN model ELSE agent
\* the agent held after initialize_agent: built from selected_model only while unset
InitializeAgent(agent, model, ok) ==
  IF agent = "None" THEN (IF ok THEN model ELSE "None") ELSE agent

(* ---------------- DeepSeekAPIAgent ---------------- *)
\* extract_answer on a parsed JSON body; raised = an exception it does not catch
extract_answer(o) ==
  CASE o.kind = "text" -> [raised |-> FALSE, reported |-> FALSE, value |-> Str(o.text)]
    [] o.kind = "null_text" -> [raised |-> FALSE, reported |-> FALSE, value |-> PyNone]
    [] o.kind \in {"no_choices", "no_text"} ->
         [raised |-> FALSE, reported |-> FALSE, value |-> Str(Sentinel)]
    [] o.kind = "empty_choices" ->
         [raised |-> FALSE, reported |-> TRUE, value |-> Str(Sentinel)]
    [] OTHER -> [raised |-> TRUE, reported |-> FALSE, value |-> PyNone]

DeepSeekRun(o) ==
  IF o.kind \in {"timeout", "connection_error", "http_error", "invalid_json"}
    THEN [raised |-> FALSE, reported |-> TRUE, value |-> PyNone]
  ELSE IF extract_answer(o).raised
    THEN [raised |-> FALSE, reported |-> TRUE, value |-> PyNone]
  ELSE extract_answer(o)

\* LLMChain.run of the gemini-pro chain: the generated text, or an exception
GeminiRun(o) ==
  IF o.kind = "text"
    THEN [raised |-> FALSE, reported |-> FALSE, value |-> Str(o.text)]
    ELSE [raised |-> TRUE, reported |-> FALSE, value |-> PyNone]

AgentRun(agent, o) == IF agent = "deepseek-r1" THEN DeepSeekRun(o) ELSE GeminiRun(o)

(* ---------------- process_question ---------------- *)
Sep == [sep |-> TRUE, file_id |-> NoFile, start |-> 0, len |-> 1]
Piece(c) == [sep |-> FALSE, file_id |-> c.file_id, start |-> c.start, len |-> c.len]
\* page_content[:k]
Truncate(c, k) == [c EXCEPT !.len = Min(c.len, k)]

RECURSIVE Join(_)
\* " ".join(strs)
Join(strs) ==
  IF Len(strs) = 0 THEN <<>>
  ELSE IF Len(strs) = 1 THEN <<Piece(strs[1])>>
  ELSE <<Piece(strs[1]), Sep>> \o Join(Tail(strs))

RECURSIVE StrLen(_)
StrLen(pieces) == IF pieces = <<>> THEN 0 ELSE Head(pieces).len + StrLen(Tail(pieces))

BuildContextUntruncated(chunks) ==
  Join(SubSeq(chunks, 1, Min(ContextChunks, Len(chunks))))
BuildContext(chunks) ==
  Join([i \in 1 .. Min(ContextChunks, Len(chunks)) |-> Truncate(chunks[i], ContextChars)])

AppendAnswerAlways(msgs, response) ==
  Append(msgs, [role |-> "assistant", content |-> response.s])
AppendAnswer(msgs, response) ==
  IF Truthy(response)
    THEN Append(msgs, [role |-> "assistant", content |-> response.s])
    ELSE msgs

QuestionInfo(rep, call) ==
  [op |-> "question", file |-> NoFile, outcome |-> "ok", ret |-> FALSE,
   reported |-> rep, reprocessed |-> FALSE, call |-> call]

process_question(q, initOk, o) ==
  LET agent == InitializeAgent(qa_agent, selected_model, initOk)
      constructed == qa_agent = "None" /\ agent # "None"
      initReported == qa_agent = "None" /\ ~initOk
      context == BuildContext(processed_docs.chunks)
      run == AgentRun(agent, o)
  IN
  /\ Len(messages) < MaxMsgs
  /\ pre' = Snapshot
  /\ qa_agent' = agent
  /\ UNCHANGED <<processed_docs, file_key, selected_model>>
  /\ IF agent = "None"
       THEN /\ UNCHANGED messages
            /\ last' = QuestionInfo(initReported, NoCall)
     ELSE IF ~processed_docs.present
       THEN /\ UNCHANGED messages
            /\ last' = QuestionInfo(TRUE, [NoCall EXCEPT !.constructed = constructed])
     ELSE /\ messages' = IF run.raised THEN messages ELSE AppendAnswer(messages, run.value)
          /\ last' = QuestionInfo(run.raised \/ run.reported,
                        [called |-> TRUE, constructed |-> constructed, backend |-> agent,
                         context |-> context, question |-> q, outcome |-> o,
                         response |-> run.value])

Init ==
  /\ messages = <<>>
  /\ processed_docs = NoDocs
  /\ file_key = 0
  /\ qa_agent = "None"
  /\ selected_model = "gemini-pro"
  /\ pre = [processed_docs |-> NoDocs, messages |-> <<>>, file_key |-> 0,
            qa_agent |-> "None", selected_model |-> "gemini-pro"]
  /\ last = [op |-> "init", file |-> NoFile, outcome |-> "ok", ret |-> FALSE,
             reported |-> FALSE, reprocessed |-> FALSE, call |-> NoCall]

Next ==
  \/ \E m \in model_options : select_model(m)
  \/ \E f \in FileIds \cup {NoFile}, o \in UploadOutcomes : handle_file_upload(f, o)
  \/ \E q \in Questions, initOk \in BOOLEAN, o \in BackendOutcomes :
       process_question(q, initOk, o)

Spec == Init /\ [][Next]_vars
(* ======================= claims ======================= *)
IsUpload == last.op = "upload" /\ last.file # NoFile
IsQuestion == last.op = "question"
FailedUpload == IsUpload /\ ~last.ret
Ready(d) == d.present
StepUnchanged == processed_docs = pre.processed_docs /\ messages = pre.messages

\* C1 (as claimed): a failed upload attempt, whatever the point of failure, leaves
\* processed_docs and messages as they were before the attempt and reports an error.
C1_FailedUploadKeepsState == FailedUpload => (StepUnchanged /\ last.reported)

\* C2: a successful upload of a document other than the active one leaves the session
\* Ready, holding only chunks of the new document, with an empty transcript.
C2_NewUploadReplaces ==
  (IsUpload /\ last.ret /\ pre.processed_docs.file_id # last.file) =>
     /\ Ready(processed_docs)
     /\ processed_docs.file_id = last.file
     /\ \A i \in DOMAIN processed_docs.chunks : processed_docs.chunks[i].file_id = last.file
     /\ messages = <<>>
C2_Witness ==
  /\ IsUpload /\ last.ret /\ Ready(pre.processed_docs)
  /\ pre.processed_docs.file_id # last.file
  /\ pre.messages # <<>> /\ pre.processed_docs.chunks # <<>>
  /\ processed_docs.chunks # <<>>

C4_FailureAppendsNothing ==
  /\ (IsQuestion /\ last.call.called /\ last.call.outcome.kind # "text")
        => messages = pre.messages
  /\ \A i \in DOMAIN messages : messages[i].content \in AnswerTexts

\* C5 (as claimed): from Empty, every step other than a successful upload leaves the
\* session Empty with no chunks and an empty transcript.
C5_EmptyOnlyLeftBySuccess ==
  (~Ready(pre.processed_docs) /\ ~(IsUpload /\ last.ret)) =>
     /\ ~Ready(processed_docs)
     /\ processed_docs.chunks = <<>>
     /\ messages = <<>>

\* C6: the context handed to the agent is the first min(3, n) stored chunks in order,
\* each cut to its first min(2000, length) characters, separated by single spaces;
\* it is built whenever an agent is available and is at most 3*2000 + 2 long.
C6_ContextShape ==
  (IsQuestion /\ Ready(pre.processed_docs) /\ qa_agent # "None") =>
     LET chunks == pre.processed_docs.chunks
         n == IF Len(chunks) < ContextChunks THEN Len(chunks) ELSE ContextChunks
         ctx == last.call.context
     IN /\ last.call.called
        /\ Len(ctx) = IF n = 0 THEN 0 ELSE 2 * n - 1
        /\ \A i \in 1 .. n :
             /\ ~ctx[2 * i - 1].sep
             /\ ctx[2 * i - 1].file_id = chunks[i].file_id
             /\ ctx[2 * i - 1].start = chunks[i].start
             /\ ctx[2 * i - 1].len =
                  IF chunks[i].len < ContextChars THEN chunks[i].len ELSE ContextChars
        /\ \A i \in 1 .. n - 1 : ctx[2 * i].sep /\ ctx[2 * i].len = 1
        /\ StrLen(ctx) <= ContextChunks * ContextChars + (ContextChunks - 1)
C6_Witness ==
  /\ IsQuestion /\ last.call.called
  /\ Len(pre.processed_docs.chunks) > ContextChunks
  /\ StrLen(last.call.context) = ContextChunks * ContextChars + (ContextChunks - 1)
C6_WitnessShort ==
  /\ IsQuestion /\ last.call.called
  /\ Len(pre.processed_docs.chunks) = 1
  /\ pre.processed_docs.chunks[1].len < ContextChars
  /\ StrLen(last.call.context) = pre.processed_docs.chunks[1].len

\* the held chunks follow the fixed-width layout of a text of length L
FixedWidth(chunks, L) ==
  \A i \in DOMAIN chunks :
     /\ chunks[i].start = (i - 1) * (ChunkSize - ChunkOverlap)
     /\ chunks[i].start < L
     /\ chunks[i].len = IF L - chunks[i].start < ChunkSize
                          THEN L - chunks[i].start ELSE ChunkSize
\* end of the text covered by the chunks
CoveredUpTo(chunks) ==
  IF chunks = <<>> THEN 0 ELSE chunks[Len(chunks)].start + chunks[Len(chunks)].len

\* C7 (as claimed): after a successful upload the held chunks follow the fixed-width
\* layout up to the first start index at or beyond L, and cover [0, L).
C7_HeldChunksCoverText ==
  (IsUpload /\ last.ret) =>
     LET L == DocLen(processed_docs.file_id)
         chunks == processed_docs.chunks
     IN /\ FixedWidth(chunks, L)
        /\ Len(chunks) * (ChunkSize - ChunkOverlap) >= L
        /\ CoveredUpTo(chunks) = L
\* C7 (amended): after a successful upload the session holds the first min(4, n) chunks
\* of the fixed-width layout, which cover [0, min(L, 3*(C-O)+C)) without gaps; the
\* whole text is covered exactly when L <= 22200.
C7_HeldChunksCoverPrefix ==
  (IsUpload /\ last.ret) =>
     LET L == DocLen(processed_docs.file_id)
         chunks == processed_docs.chunks
         limit == (MaxStoredChunks - 1) * (ChunkSize - ChunkOverlap) + ChunkSize
     IN /\ FixedWidth(chunks, L)
        /\ Len(chunks) <= MaxStoredChunks
        /\ Len(chunks) = MaxStoredChunks
             \/ Len(chunks) * (ChunkSize - ChunkOverlap) >= L
        /\ CoveredUpTo(chunks) = IF L < limit THEN L ELSE limit
C7_Witness ==
  /\ IsUpload /\ last.ret /\ last.reprocessed
  /\ Len(processed_docs.chunks) = MaxStoredChunks
  /\ CoveredUpTo(processed_docs.chunks) < DocLen(processed_docs.file_id)

\* C8 (as claimed): every call to the answer generator carries a non-empty context
\* and a non-empty question.
C8_NoEmptySubstitution ==
  (IsQuestion /\ last.call.called) =>
     /\ StrLen(last.call.context) > 0
     /\ last.call.question # ""

\* C9: an upload whose file_id is that of the processed document returns True without
\* re-processing and leaves processed_docs, messages, file_key and qa_agent unchanged.
C9_SameFileIsNoOp ==
  (IsUpload /\ Ready(pre.processed_docs) /\ pre.processed_docs.file_id = last.file) =>
     /\ last.ret /\ ~last.reprocessed /\ ~last.reported
     /\ StepUnchanged
     /\ file_key = pre.file_key
     /\ qa_agent = pre.qa_agent
C9_Witness ==
  /\ IsUpload /\ Ready(pre.processed_docs) /\ pre.processed_docs.file_id = last.file
  /\ messages # <<>> /\ last.ret

\* C10: an agent is constructed only while qa_agent is unset; once set, qa_agent is
\* never replaced or cleared by any step, and every call is made by it whatever the
\* selected model has become.
C10_AgentFixedOnceSet ==
  /\ last.call.constructed => pre.qa_agent = "None"
  /\ pre.qa_agent # "None" => qa_agent = pre.qa_agent
  /\ last.call.called => last.call.backend = qa_agent
  /\ (last.call.called /\ pre.qa_agent # "None") => last.call.backend = pre.qa_agent
C10_Witness ==
  /\ IsQuestion /\ last.call.called /\ pre.qa_agent # "None"
  /\ last.call.backend # selected_model
  /\ last.call.backend = "gemini-pro"
====
